---- MODULE Spec2Model ----
(***************************************************************************)
(* Payment-order reconciliation of dramini-api: the PaymentOrder,          *)
(* UserCoins and CoinTransaction tables, the checkout operations, the      *)
(* Stripe and PayPal webhook handlers, PaymentService.processPaymentSuccess*)
(* with its Prisma transaction, the manual completion scripts and the      *)
(* user routes that write UserCoins.  Every request is a slot of `reqs`    *)
(* that advances one awaited storage statement at a time, so that requests *)
(* interleave exactly where the code awaits.                               *)
(***************************************************************************)
EXTENDS Integers, Sequences, FiniteSets, Bags, TLC

\* ---------------------------------------------------------------- bounds
NumEvents == 2
MaxRequests == 2

\* ------------------------------------------------------------ input sets
Slots == {1, 2}
Users == {"u1", "u2"}
EventIds == 1..NumEvents
\* {tierKey, userId} bodies of POST /api/v1/user/purchase/checkout/stripe
StripeCheckouts == {<<"pkg_usd1", "u1">>, <<"bogus", "u1">>}
\* {tierKey, userId} bodies of POST /api/v1/user/purchase/checkout/paypal
PayPalCheckouts == {<<"coins_300", "u2">>}
\* (userId, coins) of the PUT /api/v1/user/:userId/coins requests
CoinPuts == {<<"u1", -5>>}
\* the users that sign up through POST /api/v1/user/register
Signups == {"u2"}
StripeHdrs == {"ok", "missing", "unconfigured", "invalid"}
PayPalHdrs == {"ok", "missing", "wrong_id", "unconfigured", "invalid"}
\* (event type, paid / COMPLETED) of the events the providers send
EventShapes == {<<"completed", TRUE>>, <<"completed", FALSE>>,
                <<"payment_intent", TRUE>>, <<"other", FALSE>>}

\* The user id the manual completion scripts are written for.
ScriptUser == "u1"
\* amountCents the Stripe / PayPal completion script looks for.
StripeScriptCents == 100
PayPalScriptCents == 1
\* `manual_completion_${Date.now()}`: an id outside the providers' event ids.
ManualEventBase == 100

VARIABLES
    paymentOrders,     \* Seq of PaymentOrder rows; the row's id is its index
    userCoins,         \* userId -> [present, balance]: the UserCoins rows
    coinTransactions,  \* bag of CoinTransaction rows (append-only)
    reqs,              \* slot -> the request in flight in it
    started,           \* requests received so far
    credits            \* history: per order, the balance increments made for it

vars == <<paymentOrders, userCoins, coinTransactions, reqs, started, credits>>
store == <<paymentOrders, userCoins, coinTransactions>>

\* ------------------------------------------------------------- tier table
\* PAYMENT_TIERS (local whitelist); 0 coins marks "no such key".
NoTier == [coins |-> 0, bonusCoins |-> 0, priceCents |-> 0, found |-> FALSE]

PAYMENT_TIERS ==
    [coins_100      |-> [coins |-> 100,  bonusCoins |-> 0,   priceCents |-> 199],
     coins_300      |-> [coins |-> 300,  bonusCoins |-> 50,  priceCents |-> 499],
     coins_500      |-> [coins |-> 500,  bonusCoins |-> 100, priceCents |-> 799],
     coins_1000     |-> [coins |-> 1000, bonusCoins |-> 300, priceCents |-> 1299],
     coins_2000     |-> [coins |-> 2000, bonusCoins |-> 800, priceCents |-> 1999],
     first_time_300 |-> [coins |-> 300,  bonusCoins |-> 100, priceCents |-> 299]]

getTierConfig(tierKey) ==
    IF tierKey \in DOMAIN PAYMENT_TIERS
    THEN [coins |-> PAYMENT_TIERS[tierKey].coins,
          bonusCoins |-> PAYMENT_TIERS[tierKey].bonusCoins,
          priceCents |-> PAYMENT_TIERS[tierKey].priceCents,
          found |-> TRUE]
    ELSE NoTier

\* The remote catalog answer: packages with baseCoins / bonusCoins / priceUsd.
getCmsPackageConfig(packageId) ==
    IF packageId = "pkg_usd1"
    THEN [coins |-> 10, bonusCoins |-> 0, priceCents |-> 100, found |-> TRUE]
    ELSE IF packageId = "pkg_cent1"
    THEN [coins |-> 1, bonusCoins |-> 1, priceCents |-> 1, found |-> TRUE]
    ELSE NoTier

\* Lines 114-122 / 204-212: local table first, remote catalog second.
ResolveTier(tierKey) ==
    IF getTierConfig(tierKey).found THEN getTierConfig(tierKey)
    ELSE getCmsPackageConfig(tierKey)

\* ------------------------------------------------------------------ rows
Existing == 1..Len(paymentOrders)
\* the order ids a request can name: none (0), an order, or an unknown id
NamedIds == 0..(Len(paymentOrders) + 1)

NoRow == [present |-> FALSE, balance |-> 0]

Balance(u) == IF userCoins[u].present THEN userCoins[u].balance ELSE 0

\* The insert with the base coins only.
NewOrderNoBonus(userId, tierKey, provider, tierConfig) ==
    [userId |-> userId, tierKey |-> tierKey, provider |-> provider,
     providerOrderId |-> 0,
     amountCents |-> tierConfig.priceCents,
     coins |-> tierConfig.coins,
     status |-> "pending", providerEventId |-> 0, completedAt |-> 0]

\* prisma.paymentOrder.create of createPaymentOrder
NewOrder(userId, tierKey, provider, tierConfig) ==
    [userId |-> userId, tierKey |-> tierKey, provider |-> provider,
     providerOrderId |-> 0,
     amountCents |-> tierConfig.priceCents,
     coins |-> tierConfig.coins + tierConfig.bonusCoins,
     status |-> "pending", providerEventId |-> 0, completedAt |-> 0]

\* The clock read by new Date() and Date.now(), at the resolution of one
\* committed transaction.
Now == BagCardinality(coinTransactions) + 1

RECURSIVE SumCoins(_, _)
\* sum of the coin deltas of the rows of kinds (a set of distinct rows of
\* the bag txs, each counted as often as the bag holds it)
SumCoins(txs, kinds) ==
    IF kinds = {} THEN 0
    ELSE LET row == CHOOSE x \in kinds : TRUE
         IN row.coins * CopiesIn(row, txs) + SumCoins(txs, kinds \ {row})

\* sum of the coin deltas of user u's CoinTransaction rows
LedgerSum(u) ==
    SumCoins(coinTransactions, {x \in BagToSet(coinTransactions) : x.userId = u})

\* number of purchase rows linked to order o
PurchaseCount(o) ==
    LET rows == {x \in BagToSet(coinTransactions) :
                    x.orderId = o /\ x.transactionType = "purchase"}
    IN BagCardinality([x \in rows |-> coinTransactions[x]])

\* -------------------------------------------------------------- requests
Idle == [kind |-> "idle", pc |-> "idle", orderId |-> 0, eventId |-> 0,
         at |-> 0, result |-> "none", resp |-> "none"]

\* The request has answered: its kind, what the operation returned and the
\* HTTP answer remain until the slot is reused.
Done(r, result, resp) ==
    [Idle EXCEPT !.kind = r.kind, !.pc = "done", !.result = result, !.resp = resp]

IsWebhook(r) == r.kind \in {"stripe_webhook", "paypal_webhook"}
IsScript(r) == r.kind \in {"script_stripe", "script_paypal"}

\* A request inside prisma.$transaction that has executed its order update
\* holds that row's lock until it commits or rolls back.
InTx(r) == r.pc \in {"tx_upsert", "tx_create"}
HoldsOrder(r, o) == InTx(r) /\ r.orderId = o
HoldsUser(r, u) ==
    /\ r.pc = "tx_create"
    /\ r.orderId \in Existing
    /\ paymentOrders[r.orderId].userId = u

\* The provider-side id of the checkout object created for order o.
SessionIdOf(o) == 10 + o

\* A checkout that ran to its end before the requests under study: the
\* pending order of checkout body c, with the provider id attached.
CheckedOut(kind, c, o) ==
    [NewOrder(c[2], c[1], IF kind = "checkout_stripe" THEN "stripe" ELSE "paypal",
              ResolveTier(c[1]))
        EXCEPT !.providerOrderId = SessionIdOf(o)]

PastCheckouts(o) ==
    {CheckedOut("checkout_stripe", c, o) : c \in {x \in StripeCheckouts : ResolveTier(x[1]).found}}
    \cup {CheckedOut("checkout_paypal", c, o) : c \in {x \in PayPalCheckouts : ResolveTier(x[1]).found}}

\* The database when the requests under study begin: no balance, no
\* transaction, and the pending orders of up to two earlier checkouts.
Init ==
    /\ paymentOrders \in {<<>>} \cup {<<a>> : a \in PastCheckouts(1)}
                         \cup {<<a, b>> : a \in PastCheckouts(1), b \in PastCheckouts(2)}
    /\ userCoins = [u \in Users |-> NoRow]
    /\ coinTransactions = EmptyBag
    /\ reqs = [s \in Slots |-> Idle]
    /\ started = 0
    /\ credits = [o \in Existing |-> 0]


\* A new request takes the first free slot (slots are interchangeable).
Free(s) == reqs[s].pc = "idle" /\ \A t \in Slots : t < s => reqs[t].pc # "idle"

\* One more request is received.
Receive == started < MaxRequests /\ started' = started + 1

\* ------------------------------------------------------------- checkout
\* The order inserted before the tier is looked at.
CheckoutInsertFirst(s, kind, tierKey, userId) ==
    /\ Receive
    /\ Free(s)
    /\ LET tierConfig == ResolveTier(tierKey)
           provider == IF kind = "checkout_stripe" THEN "stripe" ELSE "paypal"
       IN /\ paymentOrders' = Append(paymentOrders, NewOrder(userId, tierKey, provider, tierConfig))
          /\ credits' = Append(credits, 0)
          /\ reqs' = [reqs EXCEPT ![s] =
                        IF ~tierConfig.found
                        THEN Done([Idle EXCEPT !.kind = kind], "invalid_tier", "500")
                        ELSE [Idle EXCEPT !.kind = kind, !.pc = "attach",
                                          !.orderId = Len(paymentOrders) + 1]]
    /\ UNCHANGED <<userCoins, coinTransactions>>

\* createStripeCheckoutSession / createPayPalOrder up to the order insert:
\* resolve the tier, throw on an unknown key (the route answers 500),
\* otherwise insert the pending order.
CheckoutCreateOrder(s, kind, tierKey, userId) ==
    /\ Receive
    /\ Free(s)
    /\ LET tierConfig == ResolveTier(tierKey)
           provider == IF kind = "checkout_stripe" THEN "stripe" ELSE "paypal"
       IN IF ~tierConfig.found
          THEN /\ reqs' = [reqs EXCEPT ![s] = Done([Idle EXCEPT !.kind = kind], "invalid_tier", "500")]
               /\ UNCHANGED <<paymentOrders, credits>>
          ELSE /\ paymentOrders' = Append(paymentOrders, NewOrder(userId, tierKey, provider, tierConfig))
               /\ credits' = Append(credits, 0)
               /\ reqs' = [reqs EXCEPT ![s] = [Idle EXCEPT !.kind = kind, !.pc = "attach",
                                                         !.orderId = Len(paymentOrders) + 1]]
    /\ UNCHANGED <<userCoins, coinTransactions>>

\* The provider call and the providerOrderId update that follows it; a
\* provider failure throws before the update and the route answers 500.
CheckoutAttach(s, providerOk) ==
    /\ reqs[s].pc = "attach"
    /\ IF providerOk
       THEN /\ paymentOrders' = [paymentOrders EXCEPT ![reqs[s].orderId].providerOrderId =
                                                        SessionIdOf(reqs[s].orderId)]
            /\ reqs' = [reqs EXCEPT ![s] = Done(@, "created", "200")]
       ELSE /\ reqs' = [reqs EXCEPT ![s] = Done(@, "provider_failed", "500")]
            /\ UNCHANGED paymentOrders
    /\ UNCHANGED <<userCoins, coinTransactions, started, credits>>

\* ------------------------------------------------------------- webhooks
\* The signature check left out: constructEvent's error is ignored.
StripeGateOpen(hdr) ==
    IF hdr = "missing" THEN "400"
    ELSE IF hdr = "unconfigured" THEN "500"
    ELSE "ok"

\* What the Stripe handler answers before it looks at the event.
StripeGate(hdr) ==
    IF hdr = "missing" THEN "400"
    ELSE IF hdr = "unconfigured" THEN "500"
    ELSE IF hdr = "invalid" THEN "400"
    ELSE "ok"

\* verifyPayPalWebhook answering true when it has no credentials or no token.
PayPalGateOpen(hdr) ==
    IF hdr \in {"missing", "wrong_id", "invalid"} THEN "400" ELSE "ok"

\* What the PayPal handler answers before it looks at the event: missing
\* transmission headers, a webhook id other than PAYPAL_WEBHOOK_ID, and
\* verifyPayPalWebhook returning false (no credentials, no token, a failed
\* verify call, or a status other than SUCCESS) are all answered 400.
PayPalGate(hdr) ==
    IF hdr \in {"missing", "wrong_id", "unconfigured", "invalid"} THEN "400" ELSE "ok"

\* Does a verified event ask for a completion, given that it names an
\* order?  checkout.session.completed must be paid, payment_intent.succeeded
\* always does.
StripeWants(evType, paid) ==
    \/ evType = "completed" /\ paid
    \/ evType = "payment_intent"

\* PAYMENT.CAPTURE.COMPLETED with capture.status COMPLETED.
PayPalWants(evType, paid) == evType = "completed" /\ paid

\* The handler from receipt to its first storage access: gate is the answer
\* of the signature checks, wants the event's type and payment status, oid
\* the order id in its metadata / custom_id (0: none) and eid its event id.
Deliver(kind, gate, wants, oid, eid) ==
    LET calls == wants /\ oid # 0
        base == [Idle EXCEPT !.kind = kind,
                             !.orderId = IF calls THEN oid ELSE 0,
                             !.eventId = IF calls THEN eid ELSE 0]
    IN IF gate # "ok"
       THEN [Done(base, "none", gate)
                EXCEPT !.orderId = base.orderId, !.eventId = base.eventId]
       ELSE IF ~calls THEN Done(base, "none", "ack")
       ELSE [base EXCEPT !.pc = "find"]

\* The (gate, wants) pairs of the Stripe deliveries, over the headers and
\* the event shapes.
StripeCases ==
    {<<StripeGate(h), StripeWants(e[1], e[2])>> : h \in StripeHdrs, e \in EventShapes}

\* Every way a POST /api/v1/webhooks/stripe can leave the handler's first
\* part: over the headers, the event's shape, its order id and its event id.
StripeDeliveries ==
    {Deliver("stripe_webhook", c[1], c[2], o, i) :
        c \in StripeCases, o \in NamedIds, i \in EventIds}

StripeWebhook(s) ==
    /\ Receive
    /\ Free(s)
    /\ \E d \in StripeDeliveries : reqs' = [reqs EXCEPT ![s] = d]
    /\ UNCHANGED <<store, credits>>

\* The same for POST /api/v1/webhooks/paypal.
PayPalCases ==
    {<<PayPalGate(h), PayPalWants(e[1], e[2])>> : h \in PayPalHdrs, e \in EventShapes}

PayPalDeliveries ==
    {Deliver("paypal_webhook", c[1], c[2], o, i) :
        c \in PayPalCases, o \in NamedIds, i \in EventIds}

PayPalWebhook(s) ==
    /\ Receive
    /\ Free(s)
    /\ \E d \in PayPalDeliveries : reqs' = [reqs EXCEPT ![s] = d]
    /\ UNCHANGED <<store, credits>>

\* ----------------------------------------------- processPaymentSuccess
\* The handlers without their inner catch: an error of processPaymentSuccess
\* reaches the outer catch and is answered 500.
ErrorsAnswered(r, result) ==
    [Done(r, result, IF ~IsWebhook(r) THEN "logged"
                     ELSE IF result \in {"notfound", "transient"} THEN "500"
                     ELSE "ack")
        EXCEPT !.orderId = r.orderId, !.eventId = r.eventId, !.at = r.at]

\* The handler's answer once processPaymentSuccess returned or threw: both
\* webhook handlers catch the error and fall through to {received: true}.
AfterCompletion(r, result) ==
    [Done(r, result, IF IsWebhook(r) THEN "ack" ELSE "logged")
        EXCEPT !.orderId = r.orderId, !.eventId = r.eventId, !.at = r.at]

\* findFirst({OR: [{id: orderId}, {providerEventId}]}) without orderBy.
Matches(orderId, eventId) ==
    {i \in Existing : i = orderId \/ paymentOrders[i].providerEventId = eventId}

IsCompleted(order) == order.status = "completed"

\* The lookup replaced by an upsert: an order that is not found is created.
PpsFindOrCreate(s) ==
    /\ reqs[s].pc = "find"
    /\ LET r == reqs[s]
           m == Matches(r.orderId, r.eventId)
       IN IF m = {}
          THEN /\ reqs' = [reqs EXCEPT ![s] = AfterCompletion(r, "notfound")]
               /\ paymentOrders' = Append(paymentOrders, NewOrder("u1", "pkg_usd1", "stripe",
                                                                  ResolveTier("pkg_usd1")))
               /\ credits' = Append(credits, 0)
               /\ UNCHANGED <<userCoins, coinTransactions, started>>
          ELSE /\ \E i \in m :
                    IF IsCompleted(paymentOrders[i])
                    THEN reqs' = [reqs EXCEPT ![s] = AfterCompletion(r, "already")]
                    ELSE reqs' = [reqs EXCEPT ![s] = [r EXCEPT !.pc = "tx_update"]]
               /\ UNCHANGED <<store, started, credits>>

PpsFindFirst(s) ==
    /\ reqs[s].pc = "find"
    /\ LET r == reqs[s]
           m == Matches(r.orderId, r.eventId)
       IN IF m = {}
          THEN reqs' = [reqs EXCEPT ![s] = AfterCompletion(r, "notfound")]
          ELSE \E i \in m :
                 IF IsCompleted(paymentOrders[i])
                 THEN reqs' = [reqs EXCEPT ![s] = AfterCompletion(r, "already")]
                 ELSE reqs' = [reqs EXCEPT ![s] = [r EXCEPT !.pc = "tx_update"]]
    /\ UNCHANGED <<store, started, credits>>

\* ---------------------------------------------- manual completion scripts
ScriptCandidates(kind) ==
    {i \in Existing :
        /\ paymentOrders[i].userId = ScriptUser
        /\ paymentOrders[i].status = "pending"
        /\ IF kind = "script_stripe"
           THEN paymentOrders[i].provider = "stripe" /\ paymentOrders[i].amountCents = StripeScriptCents
           ELSE paymentOrders[i].provider = "paypal" /\ paymentOrders[i].amountCents = PayPalScriptCents}

Newest(S) == CHOOSE i \in S : \A j \in S : j <= i

\* findFirst of the newest matching pending order; none: the script returns.
ScriptFind(s, kind) ==
    /\ Receive
    /\ Free(s)
    /\ LET c == ScriptCandidates(kind)
       IN IF c = {}
          THEN reqs' = [reqs EXCEPT ![s] = Done([Idle EXCEPT !.kind = kind], "none_pending", "logged")]
          ELSE reqs' = [reqs EXCEPT ![s] = [Idle EXCEPT !.kind = kind, !.pc = "tx_update",
                                                         !.orderId = Newest(c)]]
    /\ UNCHANGED <<store, credits>>

\* ------------------------------------------------------ the transaction
\* tx.paymentOrder.update({where: {id}}): waits for the row, then stages
\* status / providerEventId / completedAt.  The where clause names the id
\* only, so the row's current status does not matter.
TxUpdateOrder(s) ==
    /\ reqs[s].pc = "tx_update"
    /\ \A t \in Slots \ {s} : ~HoldsOrder(reqs[t], reqs[s].orderId)
    /\ reqs' = [reqs EXCEPT ![s] =
                  [@ EXCEPT !.pc = "tx_upsert", !.at = Now,
                            !.eventId = IF IsScript(reqs[s]) THEN ManualEventBase + Now ELSE @]]
    /\ UNCHANGED <<store, started, credits>>

\* tx.userCoins.upsert: waits for the user's row, stages the increment.
TxUpsertUserCoins(s) ==
    /\ reqs[s].pc = "tx_upsert"
    /\ \A t \in Slots \ {s} : ~HoldsUser(reqs[t], paymentOrders[reqs[s].orderId].userId)
    /\ reqs' = [reqs EXCEPT ![s].pc = "tx_create"]
    /\ UNCHANGED <<store, started, credits>>

\* The update without its completedAt.
UnstampedRow(order, eventId, at) ==
    [order EXCEPT !.status = "completed", !.providerEventId = eventId]

CompletedRow(order, eventId, at) ==
    [order EXCEPT !.status = "completed", !.providerEventId = eventId, !.completedAt = at]

\* The upsert taking its create branch whatever row exists.
UpsertedAsNew(row, coins) == [present |-> TRUE, balance |-> coins]

\* tx.userCoins.upsert: increment the row's balance, or create it at coins.
Upserted(row, coins) ==
    IF row.present THEN [row EXCEPT !.balance = @ + coins]
    ELSE [present |-> TRUE, balance |-> coins]

PurchaseRow(order, o) ==
    [userId |-> order.userId, orderId |-> o, coins |-> order.coins,
     transactionType |-> "purchase"]

\* tx.coinTransaction.create, the last statement of the callback, and the
\* commit: the three writes become visible together.
TxCreateTransaction(s) ==
    /\ reqs[s].pc = "tx_create"
    /\ LET o == reqs[s].orderId
           order == paymentOrders[o]
       IN /\ paymentOrders' = [paymentOrders EXCEPT ![o] = CompletedRow(order, reqs[s].eventId, reqs[s].at)]
          /\ userCoins' = [userCoins EXCEPT ![order.userId] = Upserted(@, order.coins)]
          /\ coinTransactions' = coinTransactions (+) SetToBag({PurchaseRow(order, o)})
          /\ credits' = [credits EXCEPT ![o] = @ + 1]
    /\ reqs' = [reqs EXCEPT ![s] = AfterCompletion(@, "credited")]
    /\ UNCHANGED started

\* The writes made outside the transaction client: the statements already
\* executed survive the error.
LeftBehind(r) ==
    IF InTx(r) /\ r.orderId \in Existing
    THEN LET order == paymentOrders[r.orderId]
         IN <<[paymentOrders EXCEPT ![r.orderId] = CompletedRow(order, r.eventId, r.at)],
              IF r.pc = "tx_create"
              THEN [userCoins EXCEPT ![order.userId] = Upserted(@, order.coins)]
              ELSE userCoins,
              coinTransactions>>
    ELSE store

\* What a storage error inside $transaction leaves behind of the statements
\* already executed: nothing (the transaction rolls back).
RolledBack(r) == store

\* A storage error at the statement the request is about to run: findFirst
\* throws, or the transaction throws and rolls back.
StorageFault(s) ==
    /\ reqs[s].pc \in {"find", "tx_update", "tx_upsert", "tx_create"}
    /\ paymentOrders' = RolledBack(reqs[s])[1]
    /\ userCoins' = RolledBack(reqs[s])[2]
    /\ coinTransactions' = RolledBack(reqs[s])[3]
    /\ reqs' = [reqs EXCEPT ![s] = AfterCompletion(@, "transient")]
    /\ UNCHANGED <<started, credits>>

\* --------------------------------------------------------- user routes
\* POST /api/v1/user/register: a new user gets a UserCoins row at 0.
Register(u) ==
    /\ Receive
    /\ ~userCoins[u].present
    /\ \A t \in Slots : ~HoldsUser(reqs[t], u)
    /\ userCoins' = [userCoins EXCEPT ![u] = [present |-> TRUE, balance |-> 0]]
    /\ UNCHANGED <<paymentOrders, coinTransactions, reqs, credits>>

\* PUT /api/v1/user/:userId/coins: upsert the balance to the body's value.
SetCoins(u, coins) ==
    /\ Receive
    /\ \A t \in Slots : ~HoldsUser(reqs[t], u)
    /\ userCoins' = [userCoins EXCEPT ![u] = [present |-> TRUE, balance |-> coins]]
    /\ UNCHANGED <<paymentOrders, coinTransactions, reqs, credits>>

\* ------------------------------------------------------- verification
\* The verification completing the order it finds paid and pending.
VerifyStripeCompletes(s, o, paid) ==
    /\ Receive
    /\ Free(s)
    /\ LET found == {i \in Existing : paymentOrders[i].providerOrderId = SessionIdOf(o)}
           base == [Idle EXCEPT !.kind = "verify_stripe"]
       IN /\ reqs' = [reqs EXCEPT ![s] =
                        IF ~paid \/ found = {} THEN Done(base, "verify_failed", "500")
                        ELSE Done(base, IF \E i \in found : IsCompleted(paymentOrders[i])
                                        THEN "already" ELSE "not_processed", "200")]
          /\ paymentOrders' = [i \in Existing |->
                                 IF paid /\ i \in found
                                 THEN [paymentOrders[i] EXCEPT !.status = "completed"]
                                 ELSE paymentOrders[i]]
    /\ UNCHANGED <<userCoins, coinTransactions, credits>>

\* verifyStripePayment: reads the session, the order and the balance.
VerifyStripePayment(s, o, paid) ==
    /\ Receive
    /\ Free(s)
    /\ LET found == {i \in Existing : paymentOrders[i].providerOrderId = SessionIdOf(o)}
           base == [Idle EXCEPT !.kind = "verify_stripe"]
       IN reqs' = [reqs EXCEPT ![s] =
                     IF ~paid \/ found = {} THEN Done(base, "verify_failed", "500")
                     ELSE Done(base, IF \E i \in found : IsCompleted(paymentOrders[i])
                                     THEN "already" ELSE "not_processed", "200")]
    /\ UNCHANGED <<store, credits>>

\* verifyPayPalPayment: reads the provider order and the internal order.
VerifyPayPalPayment(s, providerOk, paid) ==
    /\ Receive
    /\ Free(s)
    /\ reqs' = [reqs EXCEPT ![s] =
                  IF ~providerOk THEN Done([Idle EXCEPT !.kind = "verify_paypal"], "verify_failed", "500")
                  ELSE Done([Idle EXCEPT !.kind = "verify_paypal"],
                            IF paid THEN "paid" ELSE "unpaid", "200")]
    /\ UNCHANGED <<store, credits>>

\* getOrderStatus: findUnique by id, 500 when there is none.
GetOrderStatus(s, o) ==
    /\ Receive
    /\ Free(s)
    /\ reqs' = [reqs EXCEPT ![s] =
                  IF o \in Existing THEN Done([Idle EXCEPT !.kind = "order_status"], "found", "200")
                  ELSE Done([Idle EXCEPT !.kind = "order_status"], "notfound", "500")]
    /\ UNCHANGED <<store, credits>>

\* ------------------------------------------------------------ the end
\* The response has been sent; the slot is free for the next request.
Finish(s) ==
    /\ reqs[s].pc = "done"
    /\ reqs' = [reqs EXCEPT ![s] = Idle]
    /\ UNCHANGED <<store, started, credits>>

Kinds == {"checkout_stripe", "checkout_paypal"}

\* The checkout bodies sent to the route of each kind.
CheckoutsOf(kind) == IF kind = "checkout_stripe" THEN StripeCheckouts ELSE PayPalCheckouts

Step ==
    \/ \E s \in Slots, k \in Kinds : \E c \in CheckoutsOf(k) :
          CheckoutCreateOrder(s, k, c[1], c[2])
    \/ \E s \in Slots, ok \in BOOLEAN : CheckoutAttach(s, ok)
    \/ \E s \in Slots : StripeWebhook(s)
    \/ \E s \in Slots : PayPalWebhook(s)
    \/ \E s \in Slots : PpsFindFirst(s)
    \/ \E s \in Slots, k \in {"script_stripe", "script_paypal"} : ScriptFind(s, k)
    \/ \E s \in Slots : TxUpdateOrder(s)
    \/ \E s \in Slots : TxUpsertUserCoins(s)
    \/ \E s \in Slots : TxCreateTransaction(s)
    \/ \E s \in Slots : StorageFault(s)
    \/ \E u \in Signups : Register(u)
    \/ \E c \in CoinPuts : SetCoins(c[1], c[2])
    \/ \E s \in Slots, o \in NamedIds \ {0}, p \in BOOLEAN : VerifyStripePayment(s, o, p)
    \/ \E s \in Slots, ok \in BOOLEAN, p \in BOOLEAN : VerifyPayPalPayment(s, ok, p)
    \/ \E s \in Slots, o \in NamedIds \ {0} : GetOrderStatus(s, o)
    \/ \E s \in Slots : Finish(s)

Next == Step

Spec == Init /\ [][Next]_vars


\* Requests handled one after another: at most one is between its first
\* and its last storage statement.
InFlight(r) == r.pc \notin {"idle", "done"}
Sequential == Cardinality({s \in Slots : InFlight(reqs[s])}) <= 1

\* Next, with no request received while another is in flight.
SeqNext ==
    \/ \E s \in Slots, k \in Kinds : \E c \in CheckoutsOf(k) :
          CheckoutCreateOrder(s, k, c[1], c[2]) /\ Sequential'
    \/ \E s \in Slots, ok \in BOOLEAN : CheckoutAttach(s, ok)
    \/ \E s \in Slots : StripeWebhook(s) /\ Sequential'
    \/ \E s \in Slots : PayPalWebhook(s) /\ Sequential'
    \/ \E s \in Slots : PpsFindFirst(s)
    \/ \E s \in Slots, k \in {"script_stripe", "script_paypal"} : ScriptFind(s, k) /\ Sequential'
    \/ \E s \in Slots : TxUpdateOrder(s)
    \/ \E s \in Slots : TxUpsertUserCoins(s)
    \/ \E s \in Slots : TxCreateTransaction(s)
    \/ \E s \in Slots : StorageFault(s)
    \/ \E u \in Signups : Register(u) /\ Sequential
    \/ \E c \in CoinPuts : SetCoins(c[1], c[2]) /\ Sequential
    \/ \E s \in Slots, o \in NamedIds \ {0}, p \in BOOLEAN : VerifyStripePayment(s, o, p) /\ Sequential
    \/ \E s \in Slots, ok \in BOOLEAN, p \in BOOLEAN : VerifyPayPalPayment(s, ok, p) /\ Sequential
    \/ \E s \in Slots, o \in NamedIds \ {0} : GetOrderStatus(s, o) /\ Sequential
    \/ \E s \in Slots : Finish(s)

SeqSpec == Init /\ [][SeqNext]_vars

\* ------------------------------------------------- provider redelivery
\* Stripe and PayPal send a delivery again when it was answered with a
\* non-2xx status, and only then: the same event, whatever headers the
\* handler sees this time.  A delivery answered {received: true} is over.
Redeliver(s) ==
    /\ reqs[s].pc = "done"
    /\ IsWebhook(reqs[s])
    /\ reqs[s].resp \in {"400", "500"}
    /\ \E g \in (IF reqs[s].kind = "stripe_webhook"
                  THEN {StripeGate(h) : h \in StripeHdrs}
                  ELSE {PayPalGate(h) : h \in PayPalHdrs}) :
          reqs' = [reqs EXCEPT ![s] = Deliver(reqs[s].kind, g, reqs[s].orderId # 0,
                                              reqs[s].orderId, reqs[s].eventId)]
    /\ UNCHANGED <<store, started, credits>>

\* The statements of processPaymentSuccess that request s runs next.
HandlerStep(s) ==
    \/ PpsFindFirst(s)
    \/ TxUpdateOrder(s)
    \/ TxUpsertUserCoins(s)
    \/ TxCreateTransaction(s)

\* The webhook path alone, with the provider's redelivery.
LiveNext ==
    \/ \E s \in Slots : StripeWebhook(s)
    \/ \E s \in Slots : PayPalWebhook(s)
    \/ \E s \in Slots : PpsFindFirst(s)
    \/ \E s \in Slots : TxUpdateOrder(s)
    \/ \E s \in Slots : TxUpsertUserCoins(s)
    \/ \E s \in Slots : TxCreateTransaction(s)
    \/ \E s \in Slots : StorageFault(s)
    \/ \E s \in Slots : Redeliver(s)
    \/ \E s \in Slots : Finish(s) /\ reqs[s].resp = "ack"

\* The event loop runs every handler that can take its next statement, and
\* the provider redelivers what was not acknowledged.  Storage errors and
\* new deliveries are under no obligation to happen.
LiveSpec ==
    /\ Init
    /\ [][LiveNext]_vars
    /\ \A s \in Slots : WF_vars(HandlerStep(s)) /\ WF_vars(Redeliver(s))

\* An order that was checked out and then marked failed by whoever maintains
\* the table (status is a free string column; no statement of this code
\* writes 'failed').
FailedOrder ==
    [CheckedOut("checkout_stripe", <<"pkg_usd1", "u1">>, 1) EXCEPT !.status = "failed"]

\* The database holding one failed order when the requests begin.
FailedInit ==
    /\ paymentOrders = <<FailedOrder>>
    /\ userCoins = [u \in Users |-> NoRow]
    /\ coinTransactions = EmptyBag
    /\ reqs = [s \in Slots |-> Idle]
    /\ started = 0
    /\ credits = <<0>>

FailedSpec == FailedInit /\ [][Next]_vars

\* ------------------------------------------------- the checkout path
\* Every tier key a checkout body can carry: the local table's keys, two
\* packages of the remote catalog and a key neither knows.
CheckoutKeys == DOMAIN PAYMENT_TIERS \cup {"pkg_usd1", "pkg_cent1", "bogus"}

\* The user ids the checkout bodies carry.
Buyers == {"u1"}

\* The empty database.
CheckoutInit ==
    /\ paymentOrders = <<>>
    /\ userCoins = [u \in Users |-> NoRow]
    /\ coinTransactions = EmptyBag
    /\ reqs = [s \in Slots |-> Idle]
    /\ started = 0
    /\ credits = <<>>

\* The two checkout routes alone, over every tier key.
CheckoutNext ==
    \/ \E s \in Slots, k \in Kinds, key \in CheckoutKeys, u \in Buyers :
          CheckoutCreateOrder(s, k, key, u)
    \/ \E s \in Slots, ok \in BOOLEAN : CheckoutAttach(s, ok)
    \/ \E s \in Slots : Finish(s)

CheckoutSpec == CheckoutInit /\ [][CheckoutNext]_vars

\* ------------------------------------------------------------ claims
Completed(o) == paymentOrders[o].status = "completed"

\* The step in which request s answers with the given completion result.
Returns(s, result) ==
    /\ InFlight(reqs[s])
    /\ reqs'[s].pc = "done"
    /\ reqs'[s].result = result

\* Request s was a processPaymentSuccess call for order o that returned.
PpsReturned(s, o) ==
    /\ IsWebhook(reqs[s])
    /\ reqs[s].pc = "done"
    /\ reqs[s].orderId = o
    /\ reqs[s].result \in {"credited", "already"}

\* C1: two concurrent processPaymentSuccess calls for one pending order,
\* however they interleave, raise the owner's balance by order.coins exactly
\* once: when both have returned and one of them credited, the order has
\* been credited once.
C1_CreditedOnceUnderConcurrency ==
    \A o \in Existing : \A s, t \in Slots :
        (s # t /\ PpsReturned(s, o) /\ PpsReturned(t, o) /\ reqs[s].result = "credited")
            => credits[o] = 1

\* C2: N calls of processPaymentSuccess for one order with one event id, one
\* after another: one CoinTransaction and one balance increment; the call
\* that finds the order pending returns alreadyProcessed=false, the calls
\* that find it completed return alreadyProcessed=true.
C2_FirstCreditsRestAlreadyProcessed ==
    /\ [](\A o \in Existing : PurchaseCount(o) <= 1 /\ credits[o] <= 1)
    /\ [][\A s \in Slots :
            (/\ reqs[s].pc = "find"
             /\ reqs[s].orderId \in Existing
             /\ reqs'[s].pc = "done"
             /\ reqs'[s].result # "transient")
            => (reqs'[s].result = "already" <=> Completed(reqs[s].orderId))]_vars

\* C3: an order is credited at most once however many completion calls name
\* it and whatever provider event ids they carry: no order is credited, or
\* given a purchase row, twice.
C3_CreditedAtMostOnce ==
    \A o \in Existing : credits[o] <= 1 /\ PurchaseCount(o) <= 1

\* C4: every order has exactly one purchase row when it is completed and
\* none otherwise.
C4_OnePurchaseRowPerCompletedOrder ==
    \A o \in Existing : PurchaseCount(o) = IF Completed(o) THEN 1 ELSE 0

\* C5: the three writes of a completion are atomic.  A request that ends in
\* a storage error leaves PaymentOrder, UserCoins and CoinTransaction as
\* they were, and in every state an order is completed exactly when it has
\* its purchase row and its credit.
C5_CompletionAtomic ==
    /\ [](\A o \in Existing :
            /\ Completed(o) <=> PurchaseCount(o) >= 1
            /\ Completed(o) <=> credits[o] >= 1)
    /\ [][\A s \in Slots : Returns(s, "transient") => UNCHANGED store]_vars

\* C5 witness: a storage error hit the transaction of processPaymentSuccess
\* after its order update (at is the completedAt it had staged), and the
\* order is pending with no purchase row and no credit.
C5_Witness ==
    \E s \in Slots :
        /\ IsWebhook(reqs[s])
        /\ reqs[s].pc = "done" /\ reqs[s].result = "transient"
        /\ reqs[s].at # 0
        /\ reqs[s].orderId \in Existing
        /\ ~Completed(reqs[s].orderId)
        /\ PurchaseCount(reqs[s].orderId) = 0
        /\ credits[reqs[s].orderId] = 0
        /\ Balance(paymentOrders[reqs[s].orderId].userId) = 0

\* C6: every user's balance is the sum of the coin deltas of the user's
\* CoinTransaction rows, and is never negative.
C6_BalanceIsLedgerSum ==
    \A u \in Users : Balance(u) = LedgerSum(u) /\ Balance(u) >= 0

\* C7: a webhook delivery whose processPaymentSuccess failed with a storage
\* error is never answered {received: true}.
C7_NoAckOnTransientError ==
    \A s \in Slots :
        (IsWebhook(reqs[s]) /\ reqs[s].pc = "done" /\ reqs[s].result = "transient")
            => reqs[s].resp # "ack"

\* The orders that exist when the deliveries begin.
PastOrderIds == 1..2

\* A verified, paid completion event for the pending order o has reached
\* processPaymentSuccess.
PaidDelivered(o) ==
    /\ o \in Existing
    /\ ~Completed(o)
    /\ \E s \in Slots : IsWebhook(reqs[s]) /\ reqs[s].pc = "find" /\ reqs[s].orderId = o

\* C8: with redelivery of every unacknowledged webhook, every pending order
\* for which a verified paid completion event was delivered is eventually
\* completed and credited.
C8_PaidOrderEventuallyCompleted ==
    \A o \in PastOrderIds :
        PaidDelivered(o) ~> (o \in Existing /\ Completed(o) /\ credits[o] >= 1)

\* C9: of two concurrent completions of one order, the second writer
\* returns alreadyProcessed=true: no processPaymentSuccess call returns
\* alreadyProcessed=false from a transaction that ran on an order already
\* completed.
C9_LoserReturnsAlreadyProcessed ==
    [][\A s \in Slots :
         (IsWebhook(reqs[s]) /\ Returns(s, "credited")) => ~Completed(reqs[s].orderId)]_vars

\* The step completes an order, changes a balance or inserts a transaction.
LedgerWrite ==
    \/ \E o \in Existing : ~Completed(o) /\ paymentOrders'[o].status = "completed"
    \/ \E u \in Users : userCoins'[u].balance # userCoins[u].balance
    \/ coinTransactions' # coinTransactions

\* C10: only processPaymentSuccess completes an order, changes a balance or
\* inserts a CoinTransaction.
C10_SingleEntryPoint ==
    [][LedgerWrite => \E s \in Slots : IsWebhook(reqs[s]) /\ Returns(s, "credited")]_vars

C12_StampsIffCompleted ==
    \A o \in Existing :
        /\ paymentOrders[o].completedAt # 0 <=> Completed(o)
        /\ paymentOrders[o].providerEventId # 0 <=> Completed(o)

\* C12 witness: a completed order carrying both stamps beside a pending
\* order carrying none.
C12_Witness ==
    \E o, q \in Existing :
        /\ Completed(o)
        /\ paymentOrders[o].completedAt # 0 /\ paymentOrders[o].providerEventId # 0
        /\ paymentOrders[q].status = "pending"
        /\ paymentOrders[q].completedAt = 0 /\ paymentOrders[q].providerEventId = 0

\* C13: processPaymentSuccess called with an order id that matches no order
\* and an event id recorded on no order fails with order-not-found and
\* leaves the store unchanged: the call's next step ends it, with that
\* error (or a storage error of the lookup itself), and no table changes.
C13_UnknownOrderFailsWithoutWrites ==
    [][\A s \in Slots :
         (/\ reqs[s].pc = "find"
          /\ Matches(reqs[s].orderId, reqs[s].eventId) = {}
          /\ reqs'[s] # reqs[s])
         => /\ reqs'[s].pc = "done"
            /\ reqs'[s].result \in {"notfound", "transient"}
            /\ UNCHANGED store]_vars

\* C13 witness: a call for an unknown order id has failed with
\* order-not-found while the store holds other orders.
C13_Witness ==
    \E s \in Slots :
        /\ reqs[s].pc = "done" /\ reqs[s].result = "notfound"
        /\ reqs[s].orderId \notin Existing
        /\ Existing # {}
        /\ \A o \in Existing : paymentOrders[o].providerEventId # reqs[s].eventId

\* C14: a verified completion webhook whose order id names an order that
\* was never created is answered {received: true}.
C14_UnknownOrderAcknowledged ==
    \A s \in Slots :
        (/\ IsWebhook(reqs[s])
         /\ reqs[s].pc = "done"
         /\ reqs[s].result = "notfound")
        => reqs[s].resp = "ack"

\* C14 witness: a Stripe and a PayPal delivery for order ids that were never
\* created have both been acknowledged.
C14_Witness ==
    \E s, t \in Slots :
        /\ reqs[s].kind = "stripe_webhook" /\ reqs[t].kind = "paypal_webhook"
        /\ \A x \in {s, t} :
              /\ reqs[x].pc = "done" /\ reqs[x].result = "notfound"
              /\ reqs[x].orderId \notin Existing
              /\ reqs[x].resp = "ack"

\* C15: a checkout whose tier key resolves to nothing in the local table
\* and nothing in the remote catalog fails without a PaymentOrder row and
\* without a provider checkout object: no order carries an unresolvable key,
\* and the request that fails so ends in its first step (before the provider
\* call) and leaves paymentOrders as it was.
C15_InvalidTierCreatesNothing ==
    /\ [](\A o \in Existing : ResolveTier(paymentOrders[o].tierKey).found)
    /\ [][\A s \in Slots :
            (reqs[s].pc # "done" /\ reqs'[s].pc = "done" /\ reqs'[s].result = "invalid_tier")
            => (reqs[s].pc = "idle" /\ UNCHANGED paymentOrders)]_vars

\* C15 witness: a Stripe and a PayPal checkout with an unknown key have
\* both failed and there is no order.
C15_Witness ==
    /\ paymentOrders = <<>>
    /\ \E s, t \in Slots :
          /\ reqs[s].kind = "checkout_stripe" /\ reqs[t].kind = "checkout_paypal"
          /\ \A x \in {s, t} : reqs[x].pc = "done" /\ reqs[x].result = "invalid_tier"

\* C16: a checkout with an unknown tier key is answered with a 400, not with
\* the 500 of provider and storage failures.
C16_InvalidTierAnswered400 ==
    \A s \in Slots :
        (reqs[s].pc = "done" /\ reqs[s].result = "invalid_tier") => reqs[s].resp = "400"

\* C17: the order created at checkout is pending, with coins = tier.coins +
\* tier.bonusCoins and amountCents = tier.priceCents of its tier key's entry
\* in the whitelist; coins_300 gives 350 coins for 499 cents and coins_2000
\* gives 2800 coins for 1999 cents.
C17_OrderAmountsFromTier ==
    /\ [](\A o \in Existing :
            LET order == paymentOrders[o]
            IN /\ order.tierKey \in DOMAIN PAYMENT_TIERS
                    => /\ order.coins = PAYMENT_TIERS[order.tierKey].coins
                                          + PAYMENT_TIERS[order.tierKey].bonusCoins
                       /\ order.amountCents = PAYMENT_TIERS[order.tierKey].priceCents
               /\ order.tierKey = "coins_300" => order.coins = 350 /\ order.amountCents = 499
               /\ order.tierKey = "coins_2000" => order.coins = 2800 /\ order.amountCents = 1999)
    /\ [][Len(paymentOrders') > Len(paymentOrders)
            => paymentOrders'[Len(paymentOrders')].status = "pending"]_vars

\* C17 witness: a coins_300 order and a coins_2000 order have been created.
C17_Witness ==
    \E o, q \in Existing :
        /\ paymentOrders[o].tierKey = "coins_300" /\ paymentOrders[o].coins = 350
        /\ paymentOrders[o].amountCents = 499 /\ paymentOrders[o].status = "pending"
        /\ paymentOrders[q].tierKey = "coins_2000" /\ paymentOrders[q].coins = 2800

\* Every order id an event can carry: none (0), the orders of the earlier
\* checkouts and of the checkouts under study, and an id of no order.
AnyOrderId == 0..(MaxRequests + 3)

\* Whatever the event says, the handler's first part ends a delivery whose
\* signature is invalid with 400, before processPaymentSuccess.
InvalidSignatureStops ==
    \A w \in BOOLEAN, o \in AnyOrderId, i \in EventIds :
        \A d \in {Deliver("stripe_webhook", StripeGate("invalid"), w, o, i),
                  Deliver("paypal_webhook", PayPalGate("invalid"), w, o, i)} :
            d.pc = "done" /\ d.resp = "400" /\ d.result = "none"

\* C18: a webhook delivery whose signature verification fails is answered
\* 400 and changes nothing: whatever the event says, the handler's first
\* part ends the request with 400 before processPaymentSuccess, and the step
\* in which a delivery is answered 400 leaves the three tables as they were.
C18_BadSignatureRejected ==
    /\ [](InvalidSignatureStops /\ NamedIds \subseteq AnyOrderId)
    /\ [][\A s \in Slots :
            (/\ IsWebhook(reqs'[s])
             /\ reqs[s].pc # "done" /\ reqs'[s].pc = "done"
             /\ reqs'[s].resp = "400")
            => (reqs[s].pc = "idle" /\ UNCHANGED store)]_vars

\* C18 witness: a Stripe and a PayPal delivery of a completion event for an
\* existing pending order were answered 400, and nothing has been written.
C18_Witness ==
    \E s, t \in Slots, o \in Existing :
        /\ reqs[s].kind = "stripe_webhook" /\ reqs[t].kind = "paypal_webhook"
        /\ \A x \in {s, t} :
              /\ reqs[x].pc = "done" /\ reqs[x].resp = "400"
              /\ reqs[x].orderId = o
        /\ paymentOrders[o].status = "pending"
        /\ coinTransactions = EmptyBag
        /\ \A u \in Users : ~userCoins[u].present

\* The deliveries whose verification cannot be performed.
CannotVerify == {"missing", "unconfigured"}

\* Whatever the event says, the handler's first part ends a delivery that
\* cannot be verified, with an answer other than the acknowledgment.
UnverifiableStops ==
    \A h \in CannotVerify, w \in BOOLEAN, o \in AnyOrderId, i \in EventIds :
        \A d \in {Deliver("stripe_webhook", StripeGate(h), w, o, i),
                  Deliver("paypal_webhook", PayPalGate(h), w, o, i)} :
            d.pc = "done" /\ d.result = "none" /\ d.resp # "ack"

\* C19: when verification cannot be performed (a missing signature header,
\* missing transmission headers, an unset secret, unset credentials, a
\* failed token or verify call) the handler never calls
\* processPaymentSuccess: the handler's first part ends the request, and no
\* delivery answered 400 or 500 has been inside processPaymentSuccess.
C19_NoProcessingWithoutVerification ==
    /\ UnverifiableStops
    /\ NamedIds \subseteq AnyOrderId
    /\ \A s \in Slots :
          (IsWebhook(reqs[s]) /\ reqs[s].resp \in {"400", "500"})
            => (reqs[s].pc = "done" /\ reqs[s].result = "none" /\ reqs[s].at = 0)

\* C19 witness: a Stripe delivery of a completion event for an existing
\* pending order was answered 500 (the secret is not set), and the order is
\* still pending.
C19_Witness ==
    \E s \in Slots, o \in Existing :
        /\ reqs[s].kind = "stripe_webhook"
        /\ reqs[s].pc = "done" /\ reqs[s].resp = "500" /\ reqs[s].result = "none"
        /\ reqs[s].orderId = o
        /\ paymentOrders[o].status = "pending"
        /\ credits[o] = 0

\* C20: a verified webhook whose event type is not checkout.session.completed
\* (Stripe) or PAYMENT.CAPTURE.COMPLETED (PayPal) is acknowledged and never
\* reaches processPaymentSuccess, whatever order id and payment status it
\* carries.
C20_OtherEventsOnlyAcknowledged ==
    \A e \in EventShapes, o \in NamedIds, i \in EventIds :
        e[1] # "completed" =>
            \A d \in {Deliver("stripe_webhook", StripeGate("ok"), StripeWants(e[1], e[2]), o, i),
                      Deliver("paypal_webhook", PayPalGate("ok"), PayPalWants(e[1], e[2]), o, i)} :
                d.pc = "done" /\ d.resp = "ack" /\ d.result = "none"

\* The kinds of the read-only requests: the two verifications and the
\* order-status lookup.
ReadOnlyKinds == {"verify_stripe", "verify_paypal", "order_status"}

\* C21: verifyStripePayment, verifyPayPalPayment and the order-status lookup
\* leave every PaymentOrder, UserCoins and CoinTransaction row as it was,
\* whatever the provider reports: the step in which such a request runs and
\* answers changes none of the three tables.
C21_VerificationReadOnly ==
    [][\A s \in Slots :
         (reqs[s].pc = "idle" /\ reqs'[s].kind \in ReadOnlyKinds) => UNCHANGED store]_vars

\* C21 witness: a Stripe verification found the provider session paid and
\* the local order pending, beside an answered status lookup, and the order
\* is still pending with no balance and no transaction.
C21_Witness ==
    \E s, t \in Slots :
        /\ reqs[s].kind = "verify_stripe" /\ reqs[s].result = "not_processed"
        /\ reqs[t].kind \in {"order_status", "verify_paypal"} /\ reqs[t].resp = "200"
        /\ Existing # {}
        /\ \A o \in Existing : paymentOrders[o].status = "pending"
        /\ coinTransactions = EmptyBag
        /\ \A u \in Users : ~userCoins[u].present

\* The step in which a Stripe verification answers for a session the
\* provider reports paid while the local order is pending.
VerifiesPaidPending(s) ==
    /\ reqs[s].pc = "idle"
    /\ reqs'[s].kind = "verify_stripe"
    /\ reqs'[s].result = "not_processed"

\* C22: when a verification call sees the provider report the payment paid
\* while the local order is pending, the order is completed and credited
\* exactly once when the call returns.
C22_VerificationCompletesPaidOrder ==
    [][\A s \in Slots :
         VerifiesPaidPending(s)
            => \E o \in Existing :
                  /\ ~Completed(o)
                  /\ paymentOrders'[o].status = "completed"
                  /\ credits'[o] = 1]_vars

\* C23: no two distinct orders carry the same (provider, providerEventId):
\* an event id recorded on one completed order is never recorded on a
\* second order.
C23_EventIdOnOneOrder ==
    \A o, q \in Existing :
        (/\ o # q
         /\ paymentOrders[o].providerEventId # 0
         /\ paymentOrders[o].provider = paymentOrders[q].provider)
        => paymentOrders[o].providerEventId # paymentOrders[q].providerEventId

\* ------------------------------------------------ webhook request bodies
\* The number literals a provider can write for the amounts 1 and 20.
NumValue == [n1 |-> 1, n1_0 |-> 1, n20 |-> 20, n2e1 |-> 20]

\* One space after token i of the text when i is in sp.
Gap(i, sp) == IF i \in sp THEN <<" ">> ELSE <<>>

\* The JSON text {"id": n} as its tokens, with the insignificant whitespace
\* the sender chose.
Text(n, sp) ==
    <<"{">> \o Gap(1, sp) \o <<"id">> \o Gap(2, sp) \o <<":">> \o Gap(3, sp)
            \o <<n>> \o Gap(4, sp) \o <<"}">>

\* The bodies received on the wire.
WireBodies == {Text(n, sp) : n \in DOMAIN NumValue, sp \in SUBSET {1, 2, 3, 4}}

IsSignificant(c) == c # " "

\* JSON.parse (Fastify's default application/json parser and line 217):
\* whitespace is dropped and the number literal becomes its value.
JSONparse(text) == [id |-> NumValue[SelectSeq(text, IsSignificant)[4]]]

\* JSON.stringify: no whitespace, the shortest literal of each number.
JSONstringify(value) ==
    <<"{", "id", ":", IF value.id = 1 THEN "n1" ELSE "n20", "}">>

\* request.body of the Stripe route: the route has no parser of its own, so
\* it is the parsed object (the raw text is kept in request.rawBody, which
\* the handler does not read).
StripeBody(wire) == [form |-> "object", value |-> JSONparse(wire)]

\* const body = JSON.stringify(request.body) of the PayPal route.
PayPalBody(wire) == [form |-> "text", text |-> JSONstringify(JSONparse(wire))]

\* The delivery is received and the handler has the body it will hand to
\* constructEvent / verifyPayPalWebhook.
ReceiveBody(s, kind, wire) ==
    /\ Receive
    /\ Free(s)
    /\ reqs' = [reqs EXCEPT ![s] =
                  [kind |-> kind, pc |-> "verify", orderId |-> 0, eventId |-> 0,
                   at |-> 0, result |-> "none", resp |-> "none",
                   wire |-> wire,
                   handed |-> IF kind = "stripe_webhook" THEN StripeBody(wire)
                              ELSE PayPalBody(wire)]]
    /\ UNCHANGED <<store, credits>>

\* The signature check of a genuine delivery.  Stripe's HMAC is taken over
\* the payload handed in and matches only the bytes that were signed;
\* PayPal's endpoint answers as it sees fit.
VerifyBody(s, providerOk) ==
    /\ reqs[s].pc = "verify"
    /\ LET r == reqs[s]
           ok == IF r.kind = "stripe_webhook"
                 THEN r.handed.form = "text" /\ r.handed.text = r.wire
                 ELSE providerOk
       IN reqs' = [reqs EXCEPT ![s] =
                     Done([Idle EXCEPT !.kind = r.kind], "none", IF ok THEN "ack" ELSE "400")]
    /\ UNCHANGED <<store, started, credits>>

\* The two webhook routes up to their signature check.
BodyNext ==
    \/ \E s \in Slots, w \in WireBodies : ReceiveBody(s, "stripe_webhook", w)
    \/ \E s \in Slots, w \in WireBodies : ReceiveBody(s, "paypal_webhook", w)
    \/ \E s \in Slots, ok \in BOOLEAN : VerifyBody(s, ok)
    \/ \E s \in Slots : Finish(s)

BodySpec == CheckoutInit /\ [][BodyNext]_vars

\* C24: the body handed to signature verification is exactly the body
\* received on the wire, for both providers: a text, equal to the wire text
\* token for token.
C24_VerifiedBodyIsWireBody ==
    \A s \in Slots :
        reqs[s].pc = "verify"
            => (reqs[s].handed.form = "text" /\ reqs[s].handed.text = reqs[s].wire)

\* Request s, a processPaymentSuccess call, takes a step while the order it
\* names is completed.
ActsOnCompleted(s) ==
    /\ IsWebhook(reqs[s])
    /\ InFlight(reqs[s])
    /\ reqs[s].orderId \in Existing
    /\ Completed(reqs[s].orderId)
    /\ reqs'[s] # reqs[s]

\* C25: a completion call whose order is already completed performs no
\* write, whether the calls run one after another or the call read the
\* order as pending while another call completed it: providerEventId and
\* completedAt keep the first completion's values, and no balance and no
\* transaction row changes.
C25_CompletedOrderNotRewritten ==
    [][\A s \in Slots : ActsOnCompleted(s) => UNCHANGED store]_vars

\* The handler's first part on a verified event of shape e naming order o,
\* for each provider.
VerifiedDeliveries(e, o, i) ==
    {Deliver("stripe_webhook", StripeGate("ok"), StripeWants(e[1], e[2]), o, i),
     Deliver("paypal_webhook", PayPalGate("ok"), PayPalWants(e[1], e[2]), o, i)}

\* C26: the handlers call processPaymentSuccess only for a completion event
\* (checkout.session.completed, PAYMENT.CAPTURE.COMPLETED) that is paid /
\* COMPLETED and carries an order id; a completion event that is unpaid or
\* carries no order id is acknowledged, and the step that acknowledges a
\* delivery on receipt changes none of the three tables.
C26_OnlyPaidCompletionWithOrderId ==
    /\ [](\A e \in EventShapes, o \in NamedIds, i \in EventIds :
            \A d \in VerifiedDeliveries(e, o, i) :
               /\ d.pc = "find" => (e[1] = "completed" /\ e[2] /\ o # 0)
               /\ (e[1] = "completed" /\ (~e[2] \/ o = 0))
                    => (d.pc = "done" /\ d.resp = "ack" /\ d.result = "none"))
    /\ [][\A s \in Slots :
            (IsWebhook(reqs'[s]) /\ reqs[s].pc = "idle" /\ reqs'[s].pc = "done")
                => UNCHANGED store]_vars

\* ------------------------------------------- checkout to completion
\* metadata: {orderId: order.id, tierKey, userId} of the Stripe session.
StripeMetadata(orderId, tierKey, userId) ==
    [orderId |-> orderId, tierKey |-> tierKey, userId |-> userId]

\* custom_id: JSON.stringify({orderId: order.id, tierKey, userId}) of the
\* PayPal purchase unit, as the text's keys and values in order.
CustomId(orderId, tierKey, userId) ==
    <<"orderId", orderId, "tierKey", tierKey, "userId", userId>>

\* JSON.parse(capture.custom_id): the value that follows each key.
ParseCustomId(text) ==
    [k \in {text[i] : i \in {1, 3, 5}} |->
        text[(CHOOSE i \in {1, 3, 5} : text[i] = k) + 1]]

\* The checkout object made for the newest order of the table.
ProviderObjectOfNewest(kind, o) ==
    LET n == Len(paymentOrders)
        order == paymentOrders[n]
    IN IF kind = "checkout_stripe"
       THEN [id |-> SessionIdOf(n),
             metadata |-> StripeMetadata(n, order.tierKey, order.userId)]
       ELSE [id |-> SessionIdOf(n),
             custom_id |-> CustomId(n, order.tierKey, order.userId)]

\* The checkout object the provider creates for order o, the order the
\* request has just inserted: stripe.checkout.sessions.create /
\* OrdersCreateRequest with the order's id, tier key and user id embedded.
ProviderObject(kind, o) ==
    LET order == paymentOrders[o]
    IN IF kind = "checkout_stripe"
       THEN [id |-> SessionIdOf(o),
             metadata |-> StripeMetadata(o, order.tierKey, order.userId)]
       ELSE [id |-> SessionIdOf(o),
             custom_id |-> CustomId(o, order.tierKey, order.userId)]

\* The order id the completion webhook reads from the provider's event:
\* session.metadata.orderId, JSON.parse(capture.custom_id).orderId.
EmbeddedOrderId(kind, object) ==
    IF kind = "checkout_stripe" THEN object.metadata.orderId
    ELSE ParseCustomId(object.custom_id).orderId

\* The provider call of a checkout: the request now holds the object.
CreateProviderObject(s) ==
    /\ reqs[s].pc = "attach"
    /\ reqs' = [reqs EXCEPT ![s] =
                  [kind |-> @.kind, pc |-> "session", orderId |-> @.orderId,
                   eventId |-> 0, at |-> 0, result |-> "none", resp |-> "none",
                   object |-> ProviderObject(@.kind, @.orderId)]]
    /\ UNCHANGED <<store, started, credits>>

\* The update writing the whole row as the checkout knew it at insert.
AttachRewritesOrder(s) ==
    /\ reqs[s].pc = "session"
    /\ paymentOrders' = [paymentOrders EXCEPT ![reqs[s].orderId] =
                            [@ EXCEPT !.providerOrderId = reqs[s].object.id,
                                      !.status = "pending",
                                      !.providerEventId = 0, !.completedAt = 0]]
    /\ reqs' = [reqs EXCEPT ![s] =
                  [kind |-> @.kind, pc |-> "done", orderId |-> @.orderId,
                   eventId |-> 0, at |-> 0, result |-> "created", resp |-> "200",
                   object |-> @.object,
                   status |-> paymentOrders[@.orderId].status]]
    /\ UNCHANGED <<userCoins, coinTransactions, started, credits>>

\* The providerOrderId update and the response {sessionId, orderId, ...};
\* status is the status of the row as the update found it.
AttachProviderObject(s) ==
    /\ reqs[s].pc = "session"
    /\ paymentOrders' = [paymentOrders EXCEPT ![reqs[s].orderId].providerOrderId =
                                                 reqs[s].object.id]
    /\ reqs' = [reqs EXCEPT ![s] =
                  [kind |-> @.kind, pc |-> "done", orderId |-> @.orderId,
                   eventId |-> 0, at |-> 0, result |-> "created", resp |-> "200",
                   object |-> @.object,
                   status |-> paymentOrders[@.orderId].status]]
    /\ UNCHANGED <<userCoins, coinTransactions, started, credits>>

\* The customer has paid with the checkout object of the response in slot
\* s, and the provider delivers its completion event, verified and paid,
\* with the order id embedded in the object.  bought remembers the order the
\* checkout request had created.
ProviderNotifies(s, eid) ==
    /\ reqs[s].pc = "done"
    /\ reqs[s].result = "created"
    /\ LET r == reqs[s]
           d == Deliver(IF r.kind = "checkout_stripe" THEN "stripe_webhook"
                        ELSE "paypal_webhook",
                        "ok", TRUE, EmbeddedOrderId(r.kind, r.object), eid)
       IN reqs' = [reqs EXCEPT ![s] =
                     [kind |-> d.kind, pc |-> d.pc, orderId |-> d.orderId,
                      eventId |-> d.eventId, at |-> d.at, result |-> d.result,
                      resp |-> d.resp, bought |-> r.orderId]]
    /\ UNCHANGED <<store, started, credits>>

\* A purchase from the checkout request to the completion of its order, by
\* the provider's webhook or by one of the manual completion scripts.
PurchaseNext ==
    \/ \E s \in Slots, k \in Kinds : \E c \in CheckoutsOf(k) :
          CheckoutCreateOrder(s, k, c[1], c[2])
    \/ \E s \in Slots : CreateProviderObject(s)
    \/ \E s \in Slots : AttachProviderObject(s)
    \/ \E s \in Slots, i \in EventIds : ProviderNotifies(s, i)
    \/ \E s \in Slots : PpsFindFirst(s)
    \/ \E s \in Slots, k \in {"script_stripe", "script_paypal"} : ScriptFind(s, k)
    \/ \E s \in Slots : TxUpdateOrder(s)
    \/ \E s \in Slots : TxUpsertUserCoins(s)
    \/ \E s \in Slots : TxCreateTransaction(s)
    \/ \E s \in Slots : Finish(s)

PurchaseSpec == CheckoutInit /\ [][PurchaseNext]_vars

\* Request s is a checkout holding the provider's checkout object.
HoldsObject(s) ==
    \/ reqs[s].pc = "session"
    \/ reqs[s].pc = "done" /\ reqs[s].result = "created"

\* Request s, a completion webhook, commits its transaction.
Commits(s) ==
    /\ IsWebhook(reqs[s])
    /\ reqs[s].pc = "tx_create"
    /\ reqs'[s].pc = "done"
    /\ reqs'[s].result = "credited"

\* C27: the order id embedded in the provider's checkout object (Stripe
\* metadata.orderId, PayPal custom_id.orderId) is the id of the order the
\* same checkout request created, and the completion webhook of that object
\* completes that order and changes no other order.
C27_EmbeddedOrderIsCreatedOrder ==
    /\ [](\A s \in Slots :
            HoldsObject(s)
              => /\ reqs[s].orderId \in Existing
                 /\ EmbeddedOrderId(reqs[s].kind, reqs[s].object) = reqs[s].orderId
                 /\ reqs[s].object.id = SessionIdOf(reqs[s].orderId))
    /\ [][\A s \in Slots :
            Commits(s)
              => /\ paymentOrders'[reqs[s].bought].status = "completed"
                 /\ \A o \in Existing :
                       paymentOrders'[o] # paymentOrders[o] => o = reqs[s].bought]_vars

\* C27 witness: of two checkouts, a Stripe and a PayPal one, the webhook of
\* one has completed its order while the other order is pending.
C27_Witness ==
    \E s \in Slots, o, q \in Existing :
        /\ IsWebhook(reqs[s]) /\ reqs[s].pc = "done" /\ reqs[s].result = "credited"
        /\ reqs[s].orderId = o
        /\ Completed(o) /\ credits[o] = 1
        /\ paymentOrders[q].status = "pending"
        /\ paymentOrders[q].provider # paymentOrders[o].provider

\* Request s runs its providerOrderId update.
Attaches(s) == reqs[s].pc = "session" /\ reqs'[s].pc = "done"

\* C28: attaching the provider order id changes only providerOrderId.  An
\* order completed between the provider call and the attach stays completed
\* with its stamps, its credit, its balance and its purchase row, and
\* applying the same update again leaves the row as it is.
C28_AttachChangesOnlyProviderOrderId ==
    [][\A s \in Slots :
         Attaches(s)
           => /\ \A o \in Existing :
                    [paymentOrders'[o] EXCEPT !.providerOrderId =
                                                 paymentOrders[o].providerOrderId]
                        = paymentOrders[o]
              /\ UNCHANGED <<userCoins, coinTransactions, credits>>
              /\ [paymentOrders' EXCEPT ![reqs[s].orderId].providerOrderId =
                                            reqs[s].object.id] = paymentOrders']_vars

\* C28 witness: the update found the order already completed, and after it
\* the order is completed, stamped, credited once, with the buyer's balance
\* at order.coins and the provider id attached.
C28_Witness ==
    \E s \in Slots :
        /\ reqs[s].pc = "done" /\ reqs[s].result = "created"
        /\ reqs[s].status = "completed"
        /\ LET order == paymentOrders[reqs[s].orderId]
           IN /\ order.status = "completed"
              /\ order.completedAt # 0 /\ order.providerEventId # 0
              /\ order.providerOrderId = reqs[s].object.id
              /\ credits[reqs[s].orderId] = 1
              /\ PurchaseCount(reqs[s].orderId) = 1
              /\ Balance(order.userId) = order.coins

\* C29: whenever processPaymentSuccess(orderId, eventId, provider) returns
\* alreadyProcessed=true, the order whose id is orderId is completed and
\* has been credited: no call for a pending order is answered "already
\* processed" because the lookup matched another order by providerEventId.
C29_AlreadyProcessedMeansCompleted ==
    \A s \in Slots :
        (IsWebhook(reqs[s]) /\ reqs[s].pc = "done" /\ reqs[s].result = "already")
            => /\ reqs[s].orderId \in Existing
               /\ Completed(reqs[s].orderId)
               /\ credits[reqs[s].orderId] >= 1

\* C30: a successful completion credits exactly order.coins to exactly
\* order.userId, as stored on the order: that user's balance rises by
\* order.coins (or the row is created at order.coins), one purchase row of
\* that user, order and amount is added, and no other user's row changes.
C30_CreditsOrderCoinsToOrderUser ==
    [][\A s \in Slots :
         Commits(s)
           => LET o == reqs[s].orderId
                  order == paymentOrders[o]
              IN /\ userCoins'[order.userId].present
                 /\ userCoins'[order.userId].balance =
                       (IF userCoins[order.userId].present
                        THEN userCoins[order.userId].balance ELSE 0) + order.coins
                 /\ \A v \in Users \ {order.userId} : userCoins'[v] = userCoins[v]
                 /\ coinTransactions' = coinTransactions (+)
                       SetToBag({[userId |-> order.userId, orderId |-> o,
                                  coins |-> order.coins,
                                  transactionType |-> "purchase"]})
                 /\ paymentOrders'[o].coins = order.coins
                 /\ paymentOrders'[o].userId = order.userId]_vars

\* C30 witness: a webhook's completion has credited the order of a user
\* whose balance had been put to -5, the balance is order.coins - 5, and the
\* other user has no row.
C30_Witness ==
    \E s \in Slots :
        /\ IsWebhook(reqs[s]) /\ reqs[s].pc = "done" /\ reqs[s].result = "credited"
        /\ reqs[s].orderId \in Existing
        /\ LET order == paymentOrders[reqs[s].orderId]
           IN /\ userCoins[order.userId].balance = order.coins - 5
              /\ credits[reqs[s].orderId] = 1
              /\ \A v \in Users \ {order.userId} : ~userCoins[v].present

====
